---- MODULE Spec2Model ----
(***************************************************************************)
(* HTTPConnection (httpx/dispatch/connection.py): the per-origin           *)
(* connection that lazily establishes a transport, binds one of the two    *)
(* protocol handles according to the negotiated protocol and delegates     *)
(* send / close / health accessors to it.                                  *)
(*                                                                         *)
(* Every `await` of the source is a step boundary: a call runs from its    *)
(* entry to its first await in one action, and each collaborator's return  *)
(* (or raise) resumes the coroutine in a following action.                 *)
(***************************************************************************)
EXTENDS Naturals, Sequences, FiniteSets

\* ------------------------------------------------------------------ bounds

\* Number of send / connect / close calls made on the instance in one run.
MaxCalls == 3

\* ------------------------------------------------------------ value domains

\* Coroutines that may call into the instance.  Spec lets caller 1 act alone
\* (callers serialize access).
Tasks == {1, 2}
Callers == {1}

\* Python's None for a handle reference; handles are numbered from 1.
Null == 0

None == "None"

\* TimeoutTypes values: None, a bare number, or a TimeoutConfig.
NoTimeout == [tag |-> "None", v |-> 0]
RawTimeout(n) == [tag |-> "float", v |-> n]

\* config.TimeoutConfig(x): a configuration object built from a TimeoutTypes
\* value (a TimeoutConfig argument yields an equal configuration).
TimeoutConfig(x) == [tag |-> "TimeoutConfig", v |-> x.v]

\* config.DEFAULT_TIMEOUT_CONFIG
DEFAULT_TIMEOUT_CONFIG == TimeoutConfig(RawTimeout(5))

\* config.SSLConfig(cert=..., verify=...)
SSLConfig(cert, verify) == [cert |-> cert, verify |-> verify]

\* SSLConfig.with_overrides(verify=..., cert=...): a derived configuration;
\* the receiver is never modified.
with_overrides(cfg, verify, cert) ==
    SSLConfig(IF cert = None THEN cfg.cert ELSE cert,
              IF verify = None THEN cfg.verify ELSE verify)

\* The ssl_context argument of backend.connect: None, or the context loaded
\* from an SSLConfig.
NoContext == [tag |-> "None", cert |-> None, verify |-> None]
SSLContext(cfg) == [tag |-> "SSLContext", cert |-> cfg.cert, verify |-> cfg.verify]

\* is_ssl as it would be if connect loaded a TLS context whatever the scheme.
is_ssl_whatever_scheme(o) == o.scheme \in {"http", "https"}

\* Origin.is_ssl
is_ssl(o) == o.scheme = "https"

\* Inputs of the calls.
HttpsOrigin == [scheme |-> "https", host |-> "example.test", port |-> 443]
HttpOrigin == [scheme |-> "http", host |-> "example.test", port |-> 80]
Requests == {"GET /"}

\* What __init__ is given as (origin, verify, cert, release_func): each origin
\* with and without a release callback, with the defaults of lines 26-27 or
\* with verification disabled and a client certificate.
CtorArgs == {<<HttpsOrigin, "True", None, None>>,
             <<HttpsOrigin, "False", "client.pem", "release_func">>,
             <<HttpOrigin, "True", None, "release_func">>,
             <<HttpOrigin, "False", "client.pem", None>>}

\* The (verify, cert, timeout) overrides of a send or connect call: none (the
\* defaults of lines 43-45 and 60-62) or all three.
Overrides == {<<None, None, NoTimeout>>,
              <<"False", "other.pem", RawTimeout(1)>>}

\* What the collaborators may answer.
Protocols == {"HTTP/1.1", "HTTP/2"}
HTTP_2 == "HTTP/2"
TlsErrors == {"SSLError"}
ConnectErrors == {"ConnectTimeout"}
SendErrors == {"ProtocolError"}
Responses == {"200 OK"}

VARIABLES
    origin,          \* self.origin
    ssl,             \* self.ssl
    timeout,         \* self.timeout
    release_func,    \* self.release_func
    h11_connection,  \* self.h11_connection: Null or a handle
    h2_connection,   \* self.h2_connection: Null or a handle
    handles,         \* the protocol connections constructed so far
    pc,              \* per task: the await its call is suspended at
    frame,           \* per task: the locals of the suspended call
    ret,             \* per task: how its last call ended
    ctor_args,       \* what __init__ was given (never written afterwards)
    tls_loads,       \* the SSLConfigs load_ssl_context() was called on
    negotiations,    \* the argument lists backend.connect was called with
    ncalls,          \* calls made so far, per operation
    collab           \* what the last collaborator call returned or raised

vars == <<origin, ssl, timeout, release_func, h11_connection, h2_connection,
          handles, pc, frame, ret, ctor_args, tls_loads, negotiations,
          ncalls, collab>>

\* ------------------------------------------------------------------ helpers

NoFrame == [op |-> None, request |-> None, verify |-> None, cert |-> None,
            timeout |-> NoTimeout,
            ssl |-> SSLConfig(None, None), eff_timeout |-> NoTimeout,
            on_release |-> [func |-> None, arg |-> None], target |-> Null,
            overlaps |-> FALSE]

NoRet == [kind |-> "none", op |-> None, val |-> None]
Return(op, val) == [kind |-> "return", op |-> op, val |-> val]
Raise(op, exc) == [kind |-> "raise", op |-> op, val |-> exc]

Bool(b) == IF b THEN "True" ELSE "False"

\* Whether a call of another task is in flight (suspended at an await) when
\* task t makes a call.
InFlightBeside(t) == \E u \in Tasks \ {t} : pc[u] # "idle"

TotalCalls == ncalls.send + ncalls.connect + ncalls.close

\* Init as it would be if __init__ opened the transport itself.
InitEager ==
    /\ \E a \in CtorArgs :
          /\ origin = a[1]
          /\ ssl = SSLConfig(a[3], a[2])
          /\ timeout = TimeoutConfig(DEFAULT_TIMEOUT_CONFIG)
          /\ release_func = a[4]
          /\ ctor_args = [verify |-> a[2], cert |-> a[3],
                          timeout |-> DEFAULT_TIMEOUT_CONFIG]
          /\ negotiations =
                <<[host |-> a[1].host, port |-> a[1].port,
                   ssl_context |-> NoContext,
                   timeout |-> TimeoutConfig(DEFAULT_TIMEOUT_CONFIG),
                   op |-> "connect", overlaps |-> FALSE]>>
    /\ h11_connection = Null
    /\ h2_connection = Null
    /\ handles = <<>>
    /\ pc = [t \in Tasks |-> IF t = 1 THEN "backend_connect" ELSE "idle"]
    /\ frame = [t \in Tasks |->
                  IF t = 1 THEN [NoFrame EXCEPT !.op = "connect",
                                     !.ssl = ssl,
                                     !.eff_timeout = DEFAULT_TIMEOUT_CONFIG]
                           ELSE NoFrame]
    /\ ret = [t \in Tasks |-> NoRet]
    /\ tls_loads = <<>>
    /\ ncalls = [send |-> 0, connect |-> 0, close |-> 0]
    /\ collab = NoRet

\* __init__, lines 32-38
Init ==
    /\ \E a \in CtorArgs :
          /\ origin = a[1]
          /\ ssl = SSLConfig(a[3], a[2])
          /\ timeout = TimeoutConfig(DEFAULT_TIMEOUT_CONFIG)
          /\ release_func = a[4]
          /\ ctor_args = [verify |-> a[2], cert |-> a[3],
                          timeout |-> DEFAULT_TIMEOUT_CONFIG]
    /\ h11_connection = Null
    /\ h2_connection = Null
    /\ handles = <<>>
    /\ pc = [t \in Tasks |-> "idle"]
    /\ frame = [t \in Tasks |-> NoFrame]
    /\ ret = [t \in Tasks |-> NoRet]
    /\ tls_loads = <<>>
    /\ negotiations = <<>>
    /\ ncalls = [send |-> 0, connect |-> 0, close |-> 0]
    /\ collab = NoRet

\* ------------------------------------------------------- pieces of the code

\* IsUnbound as it would be if line 47 tested h2_connection alone.
IsUnboundH2Only == h2_connection = Null

\* send, line 47: `self.h11_connection is None and self.h2_connection is None`
IsUnbound == h11_connection = Null /\ h2_connection = Null

\* connect, line 65: `self.timeout if timeout is None else TimeoutConfig(timeout)`
EffectiveTimeout(tmo) == IF tmo = NoTimeout THEN timeout ELSE TimeoutConfig(tmo)

\* HandleSendTimeout as it would be if send handed on connect's effective
\* timeout.
HandleSendTimeoutEffective(tmo) == IF tmo = NoTimeout THEN timeout ELSE tmo

\* send, lines 51 and 54: the `timeout=timeout` handed to the handle's send is
\* send's own parameter.
HandleSendTimeout(tmo) == tmo

\* OnRelease as it would be if the closure were built over a copy of the
\* instance.
OnReleaseOverCopy ==
    IF release_func = None
    THEN [func |-> None, arg |-> None]
    ELSE [func |-> release_func, arg |-> "copy of self"]

\* connect, lines 71-74
OnRelease ==
    IF release_func = None
    THEN [func |-> None, arg |-> None]
    ELSE [func |-> release_func, arg |-> "self"]

\* send, lines 50-54: the handle a send goes to (Null: the assertion fails).
DelegateTarget(c11, c2) == IF c2 # Null THEN c2 ELSE c11

\* CloseTarget as it would be without the elif of lines 91-92.
CloseTargetH2Only == h2_connection

\* close, lines 89-92: the handle close() closes (Null: nothing to close).
CloseTarget == IF h2_connection # Null THEN h2_connection ELSE h11_connection

\* Bind as it would be with the test of line 79 inverted.
BindInverted(protocol, h) ==
    IF protocol # HTTP_2
    THEN [h11 |-> h11_connection, h2 |-> h, class |-> "HTTP2Connection"]
    ELSE [h11 |-> h, h2 |-> h2_connection, class |-> "HTTP11Connection"]

\* Bind as it would be if the handle were constructed at lines 79-86 but the
\* assignment to self were left to a later step.
BindDeferred(protocol, h) ==
    IF protocol = HTTP_2
    THEN [h11 |-> h11_connection, h2 |-> h2_connection,
          class |-> "HTTP2Connection"]
    ELSE [h11 |-> h11_connection, h2 |-> h2_connection,
          class |-> "HTTP11Connection"]

\* connect, lines 79-86: the two references after handle h was constructed for
\* the negotiated protocol.
Bind(protocol, h) ==
    IF protocol = HTTP_2
    THEN [h11 |-> h11_connection, h2 |-> h, class |-> "HTTP2Connection"]
    ELSE [h11 |-> h, h2 |-> h2_connection, class |-> "HTTP11Connection"]

NoSend == [request |-> None, timeout |-> NoTimeout]

\* HTTP2Connection(...) / HTTP11Connection(reader, writer, backend, on_release);
\* release_calls: the calls of the release callback this handle has made.
NewHandle(class, protocol, on_release) ==
    [class |-> class, protocol |-> protocol, on_release |-> on_release,
     is_closed |-> FALSE, is_connection_dropped |-> FALSE,
     sent |-> 0, last_send |-> NoSend, closes |-> 0, release_calls |-> {}]

Finish(t, r) ==
    /\ pc' = [pc EXCEPT ![t] = "idle"]
    /\ frame' = [frame EXCEPT ![t] = NoFrame]
    /\ ret' = [ret EXCEPT ![t] = r]

\* connect, lines 71-78: build the release closure and call backend.connect.
CallBackend(t, fr, ctx) ==
    /\ negotiations' = Append(negotiations,
          [host |-> origin.host, port |-> origin.port, ssl_context |-> ctx,
           timeout |-> fr.eff_timeout, op |-> fr.op,
           overlaps |-> fr.overlaps])
    /\ pc' = [pc EXCEPT ![t] = "backend_connect"]
    /\ frame' = [frame EXCEPT ![t] = [fr EXCEPT !.on_release = OnRelease]]

\* EnterConnect as it would be if lines 64-65 assigned the effective
\* configuration to self.ssl and self.timeout.
EnterConnectStoring(t, op, request, verify, cert, tmo) ==
    LET fr == [NoFrame EXCEPT !.op = op, !.request = request,
                              !.verify = verify, !.cert = cert, !.timeout = tmo,
                              !.ssl = with_overrides(ssl, verify, cert),
                              !.eff_timeout = EffectiveTimeout(tmo),
                              !.overlaps = InFlightBeside(t)]
    IN  /\ ssl' = fr.ssl
        /\ timeout' = fr.eff_timeout
        /\ IF is_ssl(origin)
           THEN /\ tls_loads' = Append(tls_loads, fr.ssl)
                /\ pc' = [pc EXCEPT ![t] = "load_ssl_context"]
                /\ frame' = [frame EXCEPT ![t] = fr]
                /\ UNCHANGED negotiations
           ELSE /\ CallBackend(t, fr, NoContext)
                /\ UNCHANGED tls_loads

\* connect, lines 64-69: the effective configuration of this attempt, then the
\* TLS context load when the origin needs one.
EnterConnect(t, op, request, verify, cert, tmo) ==
    LET fr == [NoFrame EXCEPT !.op = op, !.request = request,
                              !.verify = verify, !.cert = cert, !.timeout = tmo,
                              !.ssl = with_overrides(ssl, verify, cert),
                              !.eff_timeout = EffectiveTimeout(tmo),
                              !.overlaps = InFlightBeside(t)]
    IN  /\ UNCHANGED <<ssl, timeout>>
        /\ IF is_ssl(origin)
           THEN /\ tls_loads' = Append(tls_loads, fr.ssl)
                /\ pc' = [pc EXCEPT ![t] = "load_ssl_context"]
                /\ frame' = [frame EXCEPT ![t] = fr]
                /\ UNCHANGED negotiations
           ELSE /\ CallBackend(t, fr, NoContext)
                /\ UNCHANGED tls_loads

\* send, lines 50-54: call the bound handle's send (hs, c11, c2: the handles
\* and the two references as they are when line 50 is reached).
Delegate(t, fr, hs, c11, c2) ==
    LET target == DelegateTarget(c11, c2)
    IN  IF target = Null
        THEN /\ handles' = hs
             /\ Finish(t, Raise("send", "AssertionError"))
        ELSE /\ handles' = [hs EXCEPT
                   ![target].sent = @ + 1,
                   ![target].last_send =
                       [request |-> fr.request,
                        timeout |-> HandleSendTimeout(fr.timeout)]]
             /\ pc' = [pc EXCEPT ![t] = "handle_send"]
             /\ frame' = [frame EXCEPT ![t] =
                   [NoFrame EXCEPT !.op = "send", !.request = fr.request,
                                   !.timeout = fr.timeout, !.target = target]]
             /\ ret' = [ret EXCEPT ![t] = NoRet]

\* ------------------------------------------------------------------ actions

\* send as it would be without the test of line 47: every send connects.
send_always_connecting(t, request, verify, cert, tmo) ==
    /\ pc[t] = "idle"
    /\ TotalCalls < MaxCalls
    /\ ncalls' = [ncalls EXCEPT !.send = @ + 1]
    /\ EnterConnect(t, "send", request, verify, cert, tmo)
    /\ ret' = [ret EXCEPT ![t] = NoRet]
    /\ UNCHANGED <<origin, release_func, ctor_args, h11_connection,
                   h2_connection, handles, collab>>

\* send(request, verify, cert, timeout), lines 40-54, to its first await
send(t, request, verify, cert, tmo) ==
    /\ pc[t] = "idle"
    /\ TotalCalls < MaxCalls
    /\ ncalls' = [ncalls EXCEPT !.send = @ + 1]
    /\ IF IsUnbound
       THEN /\ EnterConnect(t, "send", request, verify, cert, tmo)
            /\ ret' = [ret EXCEPT ![t] = NoRet]
            /\ UNCHANGED handles
       ELSE /\ Delegate(t, [NoFrame EXCEPT !.request = request, !.timeout = tmo],
                        handles, h11_connection, h2_connection)
            /\ UNCHANGED <<ssl, timeout, tls_loads, negotiations>>
    /\ UNCHANGED <<origin, release_func, ctor_args, h11_connection,
                   h2_connection, collab>>

\* connect(verify, cert, timeout), lines 58-78, to its first await
connect(t, verify, cert, tmo) ==
    /\ pc[t] = "idle"
    /\ TotalCalls < MaxCalls
    /\ ncalls' = [ncalls EXCEPT !.connect = @ + 1]
    /\ EnterConnect(t, "connect", None, verify, cert, tmo)
    /\ ret' = [ret EXCEPT ![t] = NoRet]
    /\ UNCHANGED <<origin, release_func, ctor_args, h11_connection,
                   h2_connection, handles, collab>>

\* line 69: load_ssl_context() returned a context; connect goes on to line 76
load_ssl_context_returns(t) ==
    /\ pc[t] = "load_ssl_context"
    /\ collab' = Return("load_ssl_context", "SSLContext")
    /\ CallBackend(t, frame[t], SSLContext(frame[t].ssl))
    /\ UNCHANGED <<origin, ssl, timeout, release_func, ctor_args,
                   h11_connection, h2_connection, handles, ret, tls_loads,
                   ncalls>>

\* line 69: load_ssl_context() raised; nothing in connect or send catches it
load_ssl_context_raises(t, exc) ==
    /\ pc[t] = "load_ssl_context"
    /\ collab' = Raise("load_ssl_context", exc)
    /\ Finish(t, Raise(frame[t].op, exc))
    /\ UNCHANGED <<origin, ssl, timeout, release_func, ctor_args,
                   h11_connection, h2_connection, handles, tls_loads,
                   negotiations, ncalls>>

\* lines 76-86: backend.connect returned (reader, writer, protocol); the handle
\* is constructed and bound, connect returns, and a send goes on to line 50
backend_connect_returns(t, protocol) ==
    /\ pc[t] = "backend_connect"
    /\ LET h == Len(handles) + 1
           b == Bind(protocol, h)
           hs == Append(handles,
                        NewHandle(b.class, protocol, frame[t].on_release))
       IN  /\ h11_connection' = b.h11
           /\ h2_connection' = b.h2
           /\ IF frame[t].op = "send"
              THEN Delegate(t, frame[t], hs, b.h11, b.h2)
              ELSE /\ handles' = hs
                   /\ Finish(t, Return("connect", None))
    /\ collab' = Return("backend.connect", protocol)
    /\ UNCHANGED <<origin, ssl, timeout, release_func, ctor_args, tls_loads,
                   negotiations, ncalls>>

\* backend_connect_raises as it would be if the HTTP/1.1 handle were
\* constructed and assigned before the negotiator had answered.
backend_connect_raises_bound(t, exc) ==
    /\ pc[t] = "backend_connect"
    /\ collab' = Raise("backend.connect", exc)
    /\ Finish(t, Raise(frame[t].op, exc))
    /\ handles' = Append(handles,
          NewHandle("HTTP11Connection", "HTTP/1.1", frame[t].on_release))
    /\ h11_connection' = Len(handles) + 1
    /\ UNCHANGED <<origin, ssl, timeout, release_func, ctor_args,
                   h2_connection, tls_loads, negotiations, ncalls>>

\* lines 76-78: backend.connect raised (refused, timed out); nothing catches it
backend_connect_raises(t, exc) ==
    /\ pc[t] = "backend_connect"
    /\ collab' = Raise("backend.connect", exc)
    /\ Finish(t, Raise(frame[t].op, exc))
    /\ UNCHANGED <<origin, ssl, timeout, release_func, ctor_args,
                   h11_connection, h2_connection, handles, tls_loads,
                   negotiations, ncalls>>

\* lines 51/54-56: the handle's send returned a response; send returns it
handle_send_returns(t, response) ==
    /\ pc[t] = "handle_send"
    /\ collab' = Return("handle.send", response)
    /\ Finish(t, Return("send", response))
    /\ UNCHANGED <<origin, ssl, timeout, release_func, ctor_args,
                   h11_connection, h2_connection, handles, tls_loads,
                   negotiations, ncalls>>

\* handle_send_raises as it would be if send caught the handle's error and
\* called the handle's send once more.
handle_send_raises_retrying(t, exc) ==
    /\ pc[t] = "handle_send"
    /\ handles[frame[t].target].sent < MaxCalls + 1
    /\ collab' = Raise("handle.send", exc)
    /\ handles' = [handles EXCEPT ![frame[t].target].sent = @ + 1]
    /\ UNCHANGED <<origin, ssl, timeout, release_func, ctor_args,
                   h11_connection, h2_connection, pc, frame, ret, tls_loads,
                   negotiations, ncalls>>

\* lines 51/54: the handle's send raised; nothing in send catches it
handle_send_raises(t, exc) ==
    /\ pc[t] = "handle_send"
    /\ collab' = Raise("handle.send", exc)
    /\ Finish(t, Raise("send", exc))
    /\ UNCHANGED <<origin, ssl, timeout, release_func, ctor_args,
                   h11_connection, h2_connection, handles, tls_loads,
                   negotiations, ncalls>>

\* close as it would be if it asserted a bound handle as the accessors do.
close_asserting(t) ==
    /\ pc[t] = "idle"
    /\ TotalCalls < MaxCalls
    /\ ncalls' = [ncalls EXCEPT !.close = @ + 1]
    /\ IF CloseTarget = Null
       THEN /\ Finish(t, Raise("close", "AssertionError"))
            /\ UNCHANGED handles
       ELSE /\ handles' = [handles EXCEPT ![CloseTarget].closes = @ + 1]
            /\ pc' = [pc EXCEPT ![t] = "handle_close"]
            /\ frame' = [frame EXCEPT ![t] =
                  [NoFrame EXCEPT !.op = "close", !.target = CloseTarget]]
            /\ ret' = [ret EXCEPT ![t] = NoRet]
    /\ UNCHANGED <<origin, ssl, timeout, release_func, ctor_args,
                   h11_connection, h2_connection, tls_loads, negotiations,
                   collab>>

\* close(), lines 88-92, to its await (or to its end when nothing is bound)
close(t) ==
    /\ pc[t] = "idle"
    /\ TotalCalls < MaxCalls
    /\ ncalls' = [ncalls EXCEPT !.close = @ + 1]
    /\ IF CloseTarget = Null
       THEN /\ Finish(t, Return("close", None))
            /\ UNCHANGED handles
       ELSE /\ handles' = [handles EXCEPT ![CloseTarget].closes = @ + 1]
            /\ pc' = [pc EXCEPT ![t] = "handle_close"]
            /\ frame' = [frame EXCEPT ![t] =
                  [NoFrame EXCEPT !.op = "close", !.target = CloseTarget]]
            /\ ret' = [ret EXCEPT ![t] = NoRet]
    /\ UNCHANGED <<origin, ssl, timeout, release_func, ctor_args,
                   h11_connection, h2_connection, tls_loads, negotiations,
                   collab>>

\* A protocol connection's close(): once it has returned, the handle's
\* is_closed is true.
HandleClosed(hs, h) == [hs EXCEPT ![h].is_closed = TRUE]

\* handle_close_returns as it would be if close reset the references after
\* the handle's close().
handle_close_returns_unbinding(t) ==
    /\ pc[t] = "handle_close"
    /\ handles' = HandleClosed(handles, frame[t].target)
    /\ collab' = Return("handle.close", None)
    /\ Finish(t, Return("close", None))
    /\ h11_connection' = Null
    /\ h2_connection' = Null
    /\ UNCHANGED <<origin, ssl, timeout, release_func, ctor_args,
                   tls_loads, negotiations, ncalls>>

\* lines 90/92: the handle's close() returned, and close returns
handle_close_returns(t) ==
    /\ pc[t] = "handle_close"
    /\ handles' = HandleClosed(handles, frame[t].target)
    /\ collab' = Return("handle.close", None)
    /\ Finish(t, Return("close", None))
    /\ UNCHANGED <<origin, ssl, timeout, release_func, ctor_args,
                   h11_connection, h2_connection, tls_loads, negotiations,
                   ncalls>>

\* The peer drops the transport of the handle the instance delegates to: the
\* handle's liveness probe turns true.
peer_drops(h) ==
    /\ h = DelegateTarget(h11_connection, h2_connection)
    /\ ~handles[h].is_connection_dropped
    /\ handles' = [handles EXCEPT ![h].is_connection_dropped = TRUE]
    /\ UNCHANGED <<origin, ssl, timeout, release_func, ctor_args,
                   h11_connection, h2_connection, pc, frame, ret, tls_loads,
                   negotiations, ncalls, collab>>

\* on_release(), with on_release the functools.partial of line 74: the call
\* release_func(self) it makes.
ReleaseCall(on_release) == [func |-> on_release.func, arg |-> on_release.arg]

\* A protocol connection judges itself idle and raises its release
\* notification: it calls the on_release closure it was constructed with, when
\* it was given one.
handle_signals_release(h) ==
    /\ handles[h].on_release.func # None
    /\ ReleaseCall(handles[h].on_release) \notin handles[h].release_calls
    /\ handles' = [handles EXCEPT ![h].release_calls =
                      @ \cup {ReleaseCall(handles[h].on_release)}]
    /\ UNCHANGED <<origin, ssl, timeout, release_func, ctor_args,
                   h11_connection, h2_connection, pc, frame, ret, tls_loads,
                   negotiations, ncalls, collab>>

\* is_http2, lines 94-96
is_http2_value == Return("is_http2", Bool(h2_connection # Null))

\* is_closed_value as it would be if an unbound instance counted as closed.
is_closed_value_unbound_closed ==
    IF h2_connection # Null
    THEN Return("is_closed", Bool(handles[h2_connection].is_closed))
    ELSE IF h11_connection = Null
         THEN Return("is_closed", "True")
         ELSE Return("is_closed", Bool(handles[h11_connection].is_closed))

\* is_closed, lines 98-104
is_closed_value ==
    IF h2_connection # Null
    THEN Return("is_closed", Bool(handles[h2_connection].is_closed))
    ELSE IF h11_connection = Null
         THEN Raise("is_closed", "AssertionError")
         ELSE Return("is_closed", Bool(handles[h11_connection].is_closed))

\* is_connection_dropped(), lines 106-111
is_connection_dropped_value ==
    IF h2_connection # Null
    THEN Return("is_connection_dropped",
                Bool(handles[h2_connection].is_connection_dropped))
    ELSE IF h11_connection = Null
         THEN Raise("is_connection_dropped", "AssertionError")
         ELSE Return("is_connection_dropped",
                     Bool(handles[h11_connection].is_connection_dropped))

\* A synchronous accessor: it runs to its end in one step and only its
\* caller learns anything.
Read(t, r) ==
    /\ pc[t] = "idle"
    /\ ret[t] # r
    /\ ret' = [ret EXCEPT ![t] = r]
    /\ UNCHANGED <<origin, ssl, timeout, release_func, ctor_args,
                   h11_connection, h2_connection, handles, pc, frame,
                   tls_loads, negotiations, ncalls, collab>>

is_http2(t) == Read(t, is_http2_value)
is_closed(t) == Read(t, is_closed_value)
is_connection_dropped(t) == Read(t, is_connection_dropped_value)

\* --------------------------------------------------------- specifications

\* The awaited operations of task t and their continuations.
CallStep(t) ==
    \/ \E request \in Requests, o \in Overrides :
          send(t, request, o[1], o[2], o[3])
    \/ \E o \in Overrides : connect(t, o[1], o[2], o[3])
    \/ load_ssl_context_returns(t)
    \/ \E exc \in TlsErrors : load_ssl_context_raises(t, exc)
    \/ \E protocol \in Protocols : backend_connect_returns(t, protocol)
    \/ \E exc \in ConnectErrors : backend_connect_raises(t, exc)
    \/ \E response \in Responses : handle_send_returns(t, response)
    \/ \E exc \in SendErrors : handle_send_raises(t, exc)
    \/ close(t)
    \/ handle_close_returns(t)

\* The synchronous accessors.
ReadStep(t) ==
    \/ is_http2(t)
    \/ is_closed(t)
    \/ is_connection_dropped(t)

Step(t) == CallStep(t) \/ ReadStep(t)

\* Callers serialize access: one caller, one call in flight at a time.
Next ==
    \/ \E t \in Callers : Step(t)
    \/ \E h \in 1..Len(handles) : peer_drops(h)

Spec == Init /\ [][Next]_vars

\* The serialized caller's operations together with the release notifications
\* of the protocol connections.
NextRelease ==
    \/ \E t \in Callers : CallStep(t)
    \/ \E h \in 1..Len(handles) : handle_signals_release(h)

SpecRelease == Init /\ [][NextRelease]_vars

\* Two tasks calling without serializing: any call of one may begin, and any
\* await of one may complete, while a call of the other is suspended.
ConcurrentStep(t) ==
    \/ \E request \in Requests : send(t, request, None, None, NoTimeout)
    \/ connect(t, None, None, NoTimeout)
    \/ load_ssl_context_returns(t)
    \/ \E exc \in TlsErrors : load_ssl_context_raises(t, exc)
    \/ \E protocol \in Protocols : backend_connect_returns(t, protocol)
    \/ \E exc \in ConnectErrors : backend_connect_raises(t, exc)
    \/ \E response \in Responses : handle_send_returns(t, response)
    \/ \E exc \in SendErrors : handle_send_raises(t, exc)
    \/ close(t)
    \/ handle_close_returns(t)

NextConcurrent == \E t \in Tasks : ConcurrentStep(t)

SpecConcurrent == Init /\ [][NextConcurrent]_vars

\* ------------------------------------------------------------- properties

Connecting(t) == pc[t] \in {"load_ssl_context", "backend_connect"}

\* A step in which send is called / in which a connect attempt begins (line
\* 64 is reached: the TLS context load or, for a plain origin, the
\* negotiator call is made).
SendCalled == ncalls'.send = ncalls.send + 1
AttemptStarted ==
    Len(tls_loads') + Len(negotiations') > Len(tls_loads) + Len(negotiations)

\* A step in which a connect attempt of task t ends by a raise.
ConnectFailed(t) ==
    /\ Connecting(t)
    /\ pc'[t] = "idle"
    /\ collab'.kind = "raise"

\* C1: in every reachable state at most one of h11_connection and
\* h2_connection is non-null.
AtMostOneHandleBound == ~(h11_connection # Null /\ h2_connection # Null)

\* C2: from any state in which a connect has succeeded, exactly one of the
\* two handles is bound and no step changes either reference.
SingleBind ==
    [][(h11_connection # Null \/ h2_connection # Null) =>
          /\ (h11_connection = Null) # (h2_connection = Null)
          /\ h11_connection' = h11_connection
          /\ h2_connection' = h2_connection]_vars

\* C3 as claimed: once a first send has ended and only sends (and closes) were
\* called, the transport negotiator has been called exactly once.
ExactlyOneConnectAttempt ==
    (ncalls.connect = 0 /\ ncalls.send >= 1 /\ \A t \in Tasks : pc[t] = "idle")
        => Len(negotiations) = 1

\* C3 as amended: a send begins a connect attempt exactly when both handles are
\* null at the call; hence while only sends (and closes) are called, at most one
\* attempt succeeds, and once one has, no further negotiator call is made.
SendConnectsIffUnbound ==
    /\ [][SendCalled =>
            (AttemptStarted <=> (h11_connection = Null /\ h2_connection = Null))]_vars
    /\ [][(ncalls'.connect = 0 /\ Len(handles) >= 1) =>
            (negotiations' = negotiations /\ tls_loads' = tls_loads
               /\ Len(handles') = 1)]_vars
    /\ [](ncalls.connect = 0 => Len(handles) <= 1)

\* C3 witness: three sends, the first failed at the negotiator, the second
\* connected, the third was delegated without another negotiator call.
ThirdSendReusesBinding ==
    /\ ncalls = [send |-> 3, connect |-> 0, close |-> 0]
    /\ Len(negotiations) = 2
    /\ Len(handles) = 1
    /\ handles[1].sent = 2

\* C4: a connect attempt that fails at the TLS context load or at the
\* negotiator ends the call with the very exception raised, binds nothing
\* (both references and the set of handles are as before, so still null when
\* the attempt began unbound), and a send called on the instance while it is
\* unbound after such a failure begins a fresh attempt.
FailedConnectBindsNothing ==
    /\ [][\A t \in Tasks : ConnectFailed(t) =>
            /\ ret'[t] = Raise(frame[t].op, collab'.val)
            /\ collab'.val \in TlsErrors \cup ConnectErrors
            /\ h11_connection' = h11_connection
            /\ h2_connection' = h2_connection
            /\ handles' = handles]_vars
    /\ [][(/\ SendCalled
           /\ collab.kind = "raise"
           /\ collab.op \in {"load_ssl_context", "backend.connect"}
           /\ h11_connection = Null /\ h2_connection = Null)
          => (AttemptStarted /\ \E t \in Tasks : Connecting(t)')]_vars

\* C4 witness: the negotiator timed out, nothing is bound, and a following
\* send is in its own negotiator call.
RetryAfterFailedConnect ==
    \E t \in Tasks :
        /\ pc[t] = "backend_connect"
        /\ frame[t].op = "send"
        /\ collab = Raise("backend.connect", "ConnectTimeout")
        /\ Len(negotiations) = 2
        /\ h11_connection = Null /\ h2_connection = Null
        /\ handles = <<>>

AllReported(protocol) ==
    \A h \in 1..Len(handles) : handles[h].protocol = protocol

\* C5: while the negotiator has reported only HTTP/2, no HTTP/1.1 handle
\* exists or is referred to and every delegated send is at the handle
\* h2_connection refers to; likewise with the protocols exchanged; and a send
\* returns the response its handle returned.
DelegationFollowsProtocol ==
    /\ AllReported("HTTP/2") =>
          /\ h11_connection = Null
          /\ \A h \in 1..Len(handles) : handles[h].class = "HTTP2Connection"
          /\ \A t \in Tasks : pc[t] = "handle_send" =>
                 (frame[t].target = h2_connection /\ h2_connection # Null)
    /\ AllReported("HTTP/1.1") =>
          /\ h2_connection = Null
          /\ \A h \in 1..Len(handles) : handles[h].class = "HTTP11Connection"
          /\ \A t \in Tasks : pc[t] = "handle_send" =>
                 (frame[t].target = h11_connection /\ h11_connection # Null)
    /\ \A t \in Tasks : (ret[t].op = "send" /\ ret[t].kind = "return") =>
          collab = Return("handle.send", ret[t].val)

\* C5 witness: the negotiator reported HTTP/2 and a send has returned the
\* HTTP/2 handle's response.
Http2SendReturned ==
    /\ Len(handles) = 1
    /\ AllReported("HTTP/2")
    /\ handles[1].sent = 1
    /\ ret[1] = Return("send", "200 OK")

\* C6: until send or connect is called, nothing has been asked of the TLS
\* loader or of the transport negotiator and no handle exists, whatever
\* close calls and accessor reads were made.
LazyConnect ==
    (ncalls.send = 0 /\ ncalls.connect = 0) =>
        (tls_loads = <<>> /\ negotiations = <<>> /\ handles = <<>>
           /\ \A t \in Tasks : ~Connecting(t))

\* C6 witness: close was called twice and is_http2 read on a fresh instance.
OnlyCloseAndIsHttp2SoFar ==
    /\ ncalls = [send |-> 0, connect |-> 0, close |-> 2]
    /\ ret[1] = Return("is_http2", "False")

\* A step in which close is called.
CloseCalled == ncalls'.close = ncalls.close + 1

\* C7: close() called while nothing is bound returns None at once, calls no
\* collaborator and changes nothing of the instance.
CloseOnUnboundIsNoOp ==
    [][(CloseCalled /\ h11_connection = Null /\ h2_connection = Null) =>
          /\ \E t \in Tasks : ret'[t] = Return("close", None) /\ pc'[t] = "idle"
          /\ UNCHANGED <<origin, ssl, timeout, release_func, h11_connection,
                         h2_connection, handles, tls_loads, negotiations,
                         collab>>]_vars

\* C7 witness: after two closes of the unbound instance a send is connecting.
SendAfterTwoUnboundCloses ==
    /\ ncalls = [send |-> 1, connect |-> 0, close |-> 2]
    /\ Connecting(1)
    /\ frame[1].op = "send"
    /\ handles = <<>>

\* C8: the stored TLS and timeout configuration always equal what __init__
\* was given, and every connect attempt works with the call's override
\* where one was given and the stored value otherwise, which is what the
\* TLS loader and the negotiator are then handed.
OverridesNeverStored ==
    /\ ssl = [cert |-> ctor_args.cert, verify |-> ctor_args.verify]
    /\ timeout = ctor_args.timeout
    /\ \A t \in Tasks : Connecting(t) =>
          /\ frame[t].ssl.verify =
                (IF frame[t].verify = None THEN ctor_args.verify
                                           ELSE frame[t].verify)
          /\ frame[t].ssl.cert =
                (IF frame[t].cert = None THEN ctor_args.cert ELSE frame[t].cert)
          /\ frame[t].eff_timeout.v =
                (IF frame[t].timeout = NoTimeout THEN ctor_args.timeout.v
                                                 ELSE frame[t].timeout.v)
          /\ (pc[t] = "load_ssl_context" =>
                 tls_loads[Len(tls_loads)] = frame[t].ssl)
          /\ (pc[t] = "backend_connect" =>
                 LET n == negotiations[Len(negotiations)]
                 IN  /\ n.timeout = frame[t].eff_timeout
                     /\ (n.ssl_context.tag = "SSLContext" =>
                            /\ n.ssl_context.verify = frame[t].ssl.verify
                            /\ n.ssl_context.cert = frame[t].ssl.cert))

\* C8 witness: a first attempt ran with all three overrides, a later one
\* without any ran with the constructor's values.
DefaultsUsedAfterOverride ==
    /\ Len(negotiations) = 2
    /\ negotiations[1].timeout.v = 1
    /\ negotiations[1].ssl_context.verify = "False"
    /\ negotiations[1].ssl_context.cert = "other.pem"
    /\ negotiations[2].timeout = ctor_args.timeout
    /\ negotiations[2].ssl_context.verify = "True"
    /\ negotiations[2].ssl_context.cert = ctor_args.cert

\* C9 as claimed: the handle's send is handed the effective timeout: the
\* call's override if one was given, else the stored timeout configuration.
HandleGetsEffectiveTimeout ==
    \A t \in Tasks : pc[t] = "handle_send" =>
        handles[frame[t].target].last_send.timeout =
            (IF frame[t].timeout = NoTimeout THEN timeout ELSE frame[t].timeout)

\* C9 as amended: the handle's send is handed the request and send's own
\* timeout argument as it was given: the override, or None when none was given.
HandleGetsCallTimeout ==
    \A t \in Tasks : pc[t] = "handle_send" =>
        /\ frame[t].target \in {h11_connection, h2_connection} \ {Null}
        /\ handles[frame[t].target].last_send =
              [request |-> frame[t].request, timeout |-> frame[t].timeout]
        /\ frame[t].request \in Requests

\* C9 witness: a send without a timeout override is at its handle, which was
\* handed None although the instance stores a timeout configuration.
HandleSendWithoutTimeout ==
    \E t \in Tasks :
        /\ pc[t] = "handle_send"
        /\ frame[t].timeout = NoTimeout
        /\ handles[frame[t].target].last_send.timeout = NoTimeout
        /\ timeout = DEFAULT_TIMEOUT_CONFIG

\* A step in which task t reads is_closed or calls is_connection_dropped().
HealthRead(t) ==
    /\ ret'[t] # ret[t]
    /\ ret'[t].op \in {"is_closed", "is_connection_dropped"}

HandleValue(h, op) ==
    IF op = "is_closed" THEN handles[h].is_closed
                        ELSE handles[h].is_connection_dropped

\* C10: is_closed and is_connection_dropped() end in AssertionError, which is
\* none of the network errors, when neither handle is bound, and otherwise
\* return the value of the bound handle (of h2_connection when it is bound);
\* either way nothing but the caller's result changes.
HealthAccessorsDelegate ==
    [][\A t \in Tasks : HealthRead(t) =>
          /\ IF h11_connection = Null /\ h2_connection = Null
             THEN /\ ret'[t] = Raise(ret'[t].op, "AssertionError")
                  /\ ret'[t].val \notin TlsErrors \cup ConnectErrors \cup SendErrors
             ELSE LET h == IF h2_connection # Null THEN h2_connection
                                                   ELSE h11_connection
                  IN  /\ ret'[t].kind = "return"
                      /\ (ret'[t].val = "True") = HandleValue(h, ret'[t].op)
                      /\ ret'[t].val \in {"True", "False"}
          /\ UNCHANGED <<origin, ssl, timeout, release_func, h11_connection,
                         h2_connection, handles, pc, frame, tls_loads,
                         negotiations, ncalls, collab>>]_vars

\* C10 witness: after a connect that failed at the negotiator, is_closed was
\* read and ended in AssertionError.
IsClosedAssertsAfterFailedConnect ==
    /\ ret[1] = Raise("is_closed", "AssertionError")
    /\ collab = Raise("backend.connect", "ConnectTimeout")
    /\ h11_connection = Null /\ h2_connection = Null

\* The call the pool expects: its callback, given this very instance.
CallbackWithSelf == [func |-> release_func, arg |-> "self"]

\* C11: with a release callback, every handle is constructed with a closure
\* of that callback over this instance and every release notification of a
\* handle is a call of the callback with this instance; without one, no
\* handle has a closure and no call is made; and no step of connect, send or
\* close makes such a call.
ReleaseForwardsSelf ==
    /\ [](\A h \in 1..Len(handles) :
            /\ \A c \in handles[h].release_calls :
                  c = CallbackWithSelf /\ release_func # None
            /\ handles[h].on_release =
                  (IF release_func = None THEN [func |-> None, arg |-> None]
                                          ELSE CallbackWithSelf))
    /\ [][(pc' # pc \/ ncalls' # ncalls) =>
            \A h \in 1..Len(handles') :
                handles'[h].release_calls =
                    (IF h <= Len(handles) THEN handles[h].release_calls ELSE {})]_vars

\* C11 witness: the bound handle has raised its release notification and the
\* callback was called with the instance.
CallbackCalledWithInstance ==
    /\ h11_connection # Null
    /\ handles[h11_connection].release_calls =
          {[func |-> "release_func", arg |-> "self"]}

\* Connect attempts begun so far, and whether none of them has failed (each
\* has bound a handle or is still awaited).
Attempts ==
    IF origin.scheme = "https" THEN Len(tls_loads) ELSE Len(negotiations)
NoAttemptFailed ==
    Attempts = Len(handles) + Cardinality({t \in Tasks : Connecting(t)})

\* The scenario of C12: only send and close are called, the negotiator has
\* answered HTTP/1.1 and no attempt failed.
Http11Scenario ==
    /\ ncalls.connect = 0
    /\ NoAttemptFailed
    /\ Len(handles) = 1
    /\ handles[1].protocol = "HTTP/1.1"

\* C12: in the HTTP/1.1 scenario the negotiator has been called exactly once,
\* is_http2 is false, every close() is delegated to the HTTP/1.1 handle, and
\* that handle's is_closed (what is_closed returns) is false until close() is
\* called and true once a close() has returned.
Http11SendThenClose ==
    /\ [](Http11Scenario =>
            /\ Len(negotiations) = 1
            /\ h2_connection = Null
            /\ h11_connection = 1
            /\ (handles[1].closes = 0 => ~handles[1].is_closed)
            /\ ((handles[1].closes >= 1
                   /\ \A t \in Tasks : pc[t] # "handle_close")
                  => handles[1].is_closed))
    /\ [][(Http11Scenario /\ CloseCalled) =>
            (/\ handles'[1].closes = handles[1].closes + 1
             /\ \E t \in Tasks : pc'[t] = "handle_close" /\ frame'[t].target = 1)]_vars

\* C12 witness: for the https origin, one send and then one close have
\* returned, one negotiator call was made, and is_closed reads true.
Http11ClosedAfterClose ==
    /\ origin = HttpsOrigin
    /\ Http11Scenario
    /\ ncalls = [send |-> 1, connect |-> 0, close |-> 1]
    /\ Len(negotiations) = 1
    /\ ret[1] = Return("is_closed", "True")

\* C13: is_http2 is false on a fresh instance, and after every successful
\* connect it is true exactly when the negotiator reported HTTP/2 in that
\* connect (any other tag binds HTTP/1.1 and leaves it false).
IsHttp2FollowsReportedTag ==
    /\ [](Len(negotiations) = 0 => is_http2_value = Return("is_http2", "False"))
    /\ [][\A t \in Tasks :
            (pc[t] = "backend_connect" /\ Len(handles') = Len(handles) + 1)
              => (is_http2_value' = Return("is_http2", "True")
                    <=> handles'[Len(handles')].protocol = HTTP_2)]_vars

\* No connect attempt so far was begun while a call of another task was in
\* flight: the callers have serialized access as far as connecting goes.
SerializedSoFar == \A n \in 1..Len(negotiations) : ~negotiations[n].overlaps

\* C14 as claimed: through send alone, a state in which the negotiator has
\* been called twice is reachable only if calls overlapped.
SerializedSendsNegotiateOnce ==
    (ncalls.connect = 0 /\ SerializedSoFar) => Len(negotiations) <= 1

\* C14 as amended: through send alone, a state in which two negotiations have
\* succeeded (two handles constructed, or both references non-null) is
\* reachable only if a send was begun while another call was in flight; with
\* serialized callers a second negotiator call follows only a failed attempt.
TwoBindingsOnlyByOverlap ==
    (ncalls.connect = 0 /\ (Len(handles) >= 2 \/ (h11_connection # Null /\ h2_connection # Null)))
        => \E n \in 1..Len(negotiations) : negotiations[n].overlaps

\* C14 witness: two concurrent sends and no other call; the negotiator was
\* called twice, reported different protocols, and both handles are bound.
BothBoundByConcurrentSends ==
    /\ ncalls = [send |-> 2, connect |-> 0, close |-> 0]
    /\ Len(negotiations) = 2
    /\ h11_connection # Null
    /\ h2_connection # Null

\* C15: in every interleaving of two tasks' send, connect and close calls, a
\* state in which a negotiation has succeeded (a handle was constructed over
\* its stream) has a handle bound; so has every state a connect has returned
\* normally into; and the assertion of send after its connect never fails.
NegotiateAndBindIndivisible ==
    /\ Len(handles) >= 1 => (h11_connection # Null \/ h2_connection # Null)
    /\ \A t \in Tasks :
          /\ ret[t] = Return("connect", None)
                => (h11_connection # Null \/ h2_connection # Null)
          /\ ret[t] # Raise("send", "AssertionError")
          /\ pc[t] = "handle_send" => frame[t].target # Null

\* C15 witness: a connect of one task has returned normally while a send of
\* the other task, begun beside it after a close, made its own negotiation and
\* went past the assertion to the delegated send.
SendPastAssertionBesideConnect ==
    /\ ncalls = [send |-> 1, connect |-> 1, close |-> 1]
    /\ Len(negotiations) = 2
    /\ ret[1] = Return("connect", None)
    /\ pc[2] = "handle_send"

\* C16: once a close() has returned and no call is in flight, every handle
\* this instance constructed in any connect is closed.
CloseTearsDownEveryHandle ==
    (/\ \A t \in Tasks : pc[t] = "idle"
     /\ \E t \in Tasks : ret[t] = Return("close", None))
        => \A h \in 1..Len(handles) : handles[h].is_closed

\* A step of a close() call: the call itself, or its handle's close()
\* returning.
CloseStep ==
    \/ CloseCalled
    \/ \E t \in Tasks : pc[t] = "handle_close" /\ pc'[t] = "idle"

\* C17: no step of close() changes either reference (so is_http2 is the same
\* after it); a send called on a bound instance, closed or not, begins no TLS
\* load and no negotiation and is delegated to the bound handle; and every
\* close() on a bound instance, the first as the later ones, is delegated to
\* that same handle's close.
CloseKeepsBinding ==
    /\ [][CloseStep =>
            /\ h11_connection' = h11_connection
            /\ h2_connection' = h2_connection]_vars
    /\ [][(SendCalled /\ (h11_connection # Null \/ h2_connection # Null)) =>
            /\ tls_loads' = tls_loads
            /\ negotiations' = negotiations
            /\ \E t \in Tasks :
                  /\ pc'[t] = "handle_send"
                  /\ frame'[t].target = DelegateTarget(h11_connection, h2_connection)
                  /\ handles'[frame'[t].target].sent =
                        handles[frame'[t].target].sent + 1]_vars
    /\ [][(CloseCalled /\ (h11_connection # Null \/ h2_connection # Null)) =>
            \E t \in Tasks :
                /\ pc'[t] = "handle_close"
                /\ frame'[t].target = DelegateTarget(h11_connection, h2_connection)
                /\ handles'[frame'[t].target].closes =
                      handles[frame'[t].target].closes + 1]_vars

\* C17 witness: after one send (which connected) and one close, a second send
\* is suspended in the send of the handle the close has closed, and the
\* negotiator has been called once.
SendOnClosedHandle ==
    /\ ncalls = [send |-> 2, connect |-> 0, close |-> 1]
    /\ Len(negotiations) = 1
    /\ pc[1] = "handle_send"
    /\ handles[frame[1].target].is_closed
    /\ handles[frame[1].target].sent = 2

\* The delegated sends made so far, over the handles hs.
RECURSIVE TotalSent(_)
TotalSent(hs) ==
    IF hs = <<>> THEN 0 ELSE hs[Len(hs)].sent + TotalSent(SubSeq(hs, 1, Len(hs) - 1))

\* C18: when the bound handle's send raises, send ends by raising that same
\* error, makes no further collaborator call and leaves both references and
\* every handle as they were; and the delegated sends made never outnumber
\* the send calls, nor the connect attempts the send and connect calls.
SendErrorPropagates ==
    /\ [][\A t \in Tasks :
            (pc[t] = "handle_send" /\ pc'[t] # "handle_send"
               /\ collab'.kind = "raise") =>
               /\ ret'[t] = Raise("send", collab'.val)
               /\ h11_connection' = h11_connection
               /\ h2_connection' = h2_connection
               /\ handles' = handles
               /\ tls_loads' = tls_loads
               /\ negotiations' = negotiations]_vars
    /\ [](TotalSent(handles) <= ncalls.send)
    /\ [](Attempts <= ncalls.send + ncalls.connect)

\* C18 witness: a send on a bound instance has ended with the error its
\* handle's send raised, after exactly one delegated send.
SendRaisedHandleError ==
    /\ ncalls = [send |-> 1, connect |-> 1, close |-> 0]
    /\ ret[1] = Raise("send", "ProtocolError")
    /\ collab = Raise("handle.send", "ProtocolError")
    /\ h11_connection # Null
    /\ TotalSent(handles) = 1

\* C19: for a plain origin no TLS context is ever loaded and every negotiator
\* call is given no TLS context; for a TLS origin every negotiator call is
\* made by a task whose TLS context load has just returned, and is given the
\* context loaded from that attempt's configuration; and a TLS context load
\* that raises ends the call with that error and no negotiator call.
TlsLoadPrecedesNegotiation ==
    /\ [](origin.scheme # "https" =>
            /\ tls_loads = <<>>
            /\ \A n \in 1..Len(negotiations) :
                  negotiations[n].ssl_context = NoContext)
    /\ [](origin.scheme = "https" =>
            /\ Len(negotiations) <= Len(tls_loads)
            /\ \A n \in 1..Len(negotiations) :
                  negotiations[n].ssl_context.tag = "SSLContext")
    /\ [][(origin.scheme = "https" /\ negotiations' # negotiations) =>
            /\ tls_loads' = tls_loads
            /\ \E t \in Tasks :
                  /\ pc[t] = "load_ssl_context"
                  /\ pc'[t] = "backend_connect"
                  /\ collab' = Return("load_ssl_context", "SSLContext")
                  /\ negotiations'[Len(negotiations')].ssl_context
                        = SSLContext(frame[t].ssl)]_vars
    /\ [][\A t \in Tasks :
            (pc[t] = "load_ssl_context" /\ pc'[t] # "load_ssl_context"
               /\ collab'.kind = "raise") =>
               /\ negotiations' = negotiations
               /\ pc'[t] = "idle"
               /\ ret'[t] = Raise(frame[t].op, collab'.val)
               /\ h11_connection' = h11_connection
               /\ h2_connection' = h2_connection]_vars

\* C19 witness: for the TLS origin, a first attempt ended in the error of its
\* TLS context load and a second loaded its context and negotiated, so there
\* are two loads and one negotiator call, which was given a TLS context.
NegotiatedAfterSecondTlsLoad ==
    /\ origin = HttpsOrigin
    /\ Len(tls_loads) = 2
    /\ Len(negotiations) = 1
    /\ negotiations[1].ssl_context.tag = "SSLContext"
    /\ h11_connection # Null

====
